---- MODULE Spec2Model ----
(***************************************************************************)
(* The ring buffer of src/src/ring_buffer.c and the threads that drive it  *)
(* in src/tests.  Every thread is a record with a program position (pc);   *)
(* one action is one statement (or one lock-free run of statements) of     *)
(* ring_buffer_write / ring_buffer_read, so that every interleaving of a   *)
(* writer and a reader inside and outside the critical section is a        *)
(* behaviour of the model.                                                 *)
(*                                                                         *)
(*   Spec     producer_thread and consumer_thread on one buffer            *)
(*            (thread_pressure of tests/thread_test_ring_buffer.c)         *)
(*   SpecSeq  one thread calling write and read in any order               *)
(*            (the unit, edge and stress tests)                            *)
(***************************************************************************)
EXTENDS Integers, Sequences, FiniteSets, TLC

(***************************************************************************)
(* Bounds of the model.                                                    *)
(***************************************************************************)
\* capacities 1..MaxCap are passed to ring_buffer_init
MaxCap == 3
\* samples are drawn from 1..MaxVal (the tests draw rand() % 1000)
MaxVal == 2
\* failed try-locks after which a call gives up; the source gives up at
\* 100000 (ring_buffer.c:94,185), the model at this smaller number
MaxRetries == 2
\* accepted writes / successful reads after which producer_thread /
\* consumer_thread leave their loop (NUM_WRITES of the thread test is 6)
NumWrites == 4
\* calls made by the single thread of SpecSeq
MaxOps == 7

\* a call prints its "waiting for lock" line at every NoticeEvery-th failed
\* try-lock (in the source at every 1000th)
NoticeEvery == 1

\* the pipeline test: capacity of each of its buffers (BUFFER_CAPACITY is 4)
\* and number of values each of its threads handles (NUM_WRITES is 6)
PipeCap == 1

PipeWrites == 2

\* number of buffers of the pipeline (thread_pipeline_stress is called with
\* 3): a producer, NumStages - 1 workers and a consumer
NumStages == 2

Val == 1 .. MaxVal

\* what malloc'ed memory and uninitialised locals hold until they are assigned:
\* a load of it yields any sample
Indeterminate == 0

\* the float a load of slot (or local) x yields
Loaded(x) == IF x = Indeterminate THEN Val ELSE {x}

\* the value of a lock nobody holds
NoThread == "none"

\* the null pointer; any other handle is the index of the struct it points to
NULL == -1

\* what the int fields of a malloc'ed struct may hold before ring_buffer_init
AnyInt == {-1, 0, 1}

VARIABLES
    rb,        \* rb[b]: the ring_buffer struct of buffer b
    th,        \* th[t]: locals, call frame and position of thread t
    accepted,  \* accepted[b]: values of the writes to b that returned true
    returned,  \* returned[b]: values handed out by the reads of b that returned true
    heap,      \* heap[b]: what is allocated and initialised of buffer b
    keep_running,       \* eeg_app.c:30, the flag that stops the app
    eeg_buffer_global,  \* eeg_app.c:31, the buffer the signal handler destroys
    fd_in      \* the serial port: whether it is at end of file, and the
               \* bytes the device has still to send

globals == <<keep_running, eeg_buffer_global, fd_in>>

vars == <<rb, th, accepted, returned, heap, globals>>

Buffers == DOMAIN rb
Threads == DOMAIN th

\* mutant: the count starts at the capacity
ring_buffer_init_CountIsCapacity(capacity, g) ==
    [ buffer          |-> g,
      head            |-> 0,
      tail            |-> 0,
      curr_num_values |-> capacity,
      max_num_values  |-> capacity,
      lock            |-> NoThread ]

(***************************************************************************)
(* ring_buffer_init: the struct after a successful call.  malloc leaves    *)
(* the samples indeterminate: g is any content.                            *)
(***************************************************************************)
ring_buffer_init(capacity, g) ==
    [ buffer          |-> g,
      head            |-> 0,
      tail            |-> 0,
      curr_num_values |-> 0,
      max_num_values  |-> capacity,
      lock            |-> NoThread ]

\* the fields of the struct a lock holder may change, as seen when it took the lock
Snapshot(r) ==
    [ buffer          |-> r.buffer,
      head            |-> r.head,
      tail            |-> r.tail,
      curr_num_values |-> r.curr_num_values ]

NoSnapshot == Snapshot(ring_buffer_init(0, <<>>))

(***************************************************************************)
(* The heap objects behind a ring_buffer: the struct (malloc'ed by the     *)
(* caller), its sample storage and its mutex; frees and destroys count the *)
(* free(rb->buffer) and pthread_mutex_destroy calls made on them, fault    *)
(* records a call on a struct that was already freed.                      *)
(***************************************************************************)
Malloced ==
    [ struct |-> "allocated", storage |-> "none", mutex |-> "uninit",
      malloc_failed |-> FALSE, frees |-> 0, destroys |-> 0, fault |-> FALSE ]

\* after a successful ring_buffer_init
Inited == [Malloced EXCEPT !.storage = "allocated", !.mutex = "init"]

\* mutant: "<" written for "<="
InvalidCapacity_Negative(capacity) == capacity < 0

\* 41: if (capacity <= 0)
InvalidCapacity(capacity) == capacity <= 0

\* mutant: the bare ring_buffer_destroy in place of the macro
SAFE_DESTROY_NoNull(h, r, p) ==
    IF p = NULL
    THEN [heap |-> h, rb |-> r, handle |-> p]
    ELSE [heap |-> [h EXCEPT ![p].frees = @ + 1, ![p].destroys = @ + 1,
                             ![p].fault = (h[p].struct = "freed"),
                             ![p].storage = "freed", ![p].mutex = "destroyed",
                             ![p].struct = "freed"],
          rb |-> [r EXCEPT ![p].buffer = <<>>],
          handle |-> p]

\* ring_buffer_destroy, ring_buffer.c:219-229: nothing on a null pointer; else
\* free(rb->buffer), rb->buffer = NULL, pthread_mutex_destroy, free(rb).
\* On a struct already freed all of this is a use after free.
ring_buffer_destroy(h, r, p) ==
    IF p = NULL
    THEN [heap |-> h, rb |-> r]
    ELSE [heap |-> [h EXCEPT ![p].frees = @ + 1, ![p].destroys = @ + 1,
                             ![p].fault = (h[p].struct = "freed"),
                             ![p].storage = "freed", ![p].mutex = "destroyed",
                             ![p].struct = "freed"],
          rb |-> [r EXCEPT ![p].buffer = <<>>]]

\* SAFE_DESTROY, test_helpers.h:19-25: if the handle is not NULL,
\* ring_buffer_destroy and then handle = NULL
SAFE_DESTROY(h, r, p) ==
    IF p # NULL
    THEN [heap |-> ring_buffer_destroy(h, r, p).heap,
          rb |-> ring_buffer_destroy(h, r, p).rb,
          handle |-> NULL]
    ELSE [heap |-> h, rb |-> r, handle |-> p]

\* mutant: "<" written for "=="
ring_buffer_empty_Negative(r) == r.curr_num_values < 0

ring_buffer_empty(r) == r.curr_num_values = 0

\* mutant: the full test left out (an overwriting buffer)
ring_buffer_full_Never(r) == FALSE

\* mutant: ">" written for "=="
ring_buffer_full_Greater(r) == r.curr_num_values > r.max_num_values

ring_buffer_full(r) == r.curr_num_values = r.max_num_values

\* mutant: the modulo left out
NextTail_NoWrap(r) == r.tail + 1

\* rb->tail = (rb->tail + 1) % rb->max_num_values
NextTail(r) == (r.tail + 1) % r.max_num_values

\* mutant: the head never advances
NextHead_Stuck(r) == r.head

\* mutant: the modulo left out
NextHead_NoWrap(r) == r.head + 1

\* rb->head = (rb->head + 1) % rb->max_num_values
NextHead(r) == (r.head + 1) % r.max_num_values

(***************************************************************************)
(* A thread.  role is the thread function it runs; op, rbp, value, retries *)
(* and ret are the frame of its current (or last) ring buffer call; result *)
(* is the caller's variable that ring_buffer_read fills; count is the      *)
(* caller's loop counter; old is the buffer as it was when the call took   *)
(* the lock; prev is the outcome of the call before the current one, and   *)
(* prev.after_rejected tells that the call before that one was a write     *)
(* rejected as full.  total_bytes_read is the local of serial_reader, and  *)
(* late_writes counts the writes of the serial reader that have returned   *)
(* after keep_running was cleared.                                         *)
(***************************************************************************)
NoCall ==
    [ op |-> "none", value |-> 0, ret |-> FALSE, was_empty |-> FALSE,
      after_rejected |-> FALSE,
      old |-> NoSnapshot ]

NewThread(role) ==
    [ role    |-> role,
      pc      |-> "loop",
      op      |-> "none",
      rbp     |-> 0,
      value   |-> 0,
      result  |-> Indeterminate,
      retries |-> 0,
      ret     |-> FALSE,
      diag    |-> "",
      count   |-> 0,
      limit   |-> NumWrites,
      handle  |-> 0,
      out     |-> 0,
      did_read   |-> FALSE,
      did_write  |-> FALSE,
      iter_read  |-> FALSE,
      iter_write |-> FALSE,
      advanced   |-> FALSE,
      unwritten  |-> FALSE,
      dropped    |-> FALSE,
      total_bytes_read |-> 0,
      late_writes      |-> 0,
      old     |-> NoSnapshot,
      prev    |-> NoCall ]

\* entering ring_buffer_write(b, v) / ring_buffer_read(b, &result): int retries = 0
Call(f, op, b, v) ==
    [ f EXCEPT !.pc = IF op = "write" THEN "w_trylock" ELSE "r_trylock",
               !.op = op, !.rbp = b, !.value = v, !.retries = 0, !.diag = "",
               !.old = NoSnapshot ]

\* what a caller knows of the call it has just made, kept for the next one
LastCall(f) ==
    [ op |-> f.op, value |-> f.value, ret |-> f.ret,
      was_empty |-> f.old.curr_num_values = 0,
      after_rejected |-> f.prev.op = "write" /\ ~f.prev.ret /\ f.prev.old # NoSnapshot,
      old |-> f.old ]

(***************************************************************************)
(* ring_buffer_write, ring_buffer.c:89-121.                                *)
(***************************************************************************)
\* mutant: the blocking pthread_mutex_lock of the commented-out line 104
W_TryLock_Blocking(t) ==
    /\ th[t].pc = "w_trylock"
    /\ rb[th[t].rbp].lock = NoThread
    /\ rb' = [rb EXCEPT ![th[t].rbp].lock = t]
    /\ th' = [th EXCEPT ![t].pc = "w_full", ![t].old = Snapshot(rb[th[t].rbp])]
    /\ UNCHANGED <<accepted, returned, heap, globals>>

\* mutant: the path that gives up unlocks the mutex it never got
W_TryLock_UnlockOnTimeout(t) ==
    LET f == th[t]  b == f.rbp IN
    /\ f.pc = "w_trylock"
    /\ IF rb[b].lock = NoThread
       THEN /\ rb' = [rb EXCEPT ![b].lock = t]
            /\ th' = [th EXCEPT ![t].pc = "w_full", ![t].old = Snapshot(rb[b])]
       ELSE IF f.retries + 1 >= MaxRetries
            THEN /\ rb' = [rb EXCEPT ![b].lock = NoThread]
                 /\ th' = [th EXCEPT ![t].retries = f.retries + 1, ![t].pc = "ret",
                                     ![t].ret = FALSE,
                                     ![t].diag = "[WRITE] Mutex timeout! Possible deadlock."]
            ELSE /\ rb' = rb
                 /\ th' = [th EXCEPT ![t].retries = f.retries + 1]
    /\ UNCHANGED <<accepted, returned, heap, globals>>

\* 92-102: pthread_mutex_trylock; on failure retries++, give up at the limit
\* (fprintf to stderr, return false without the lock), else usleep and retry;
\* the progress line printed to stdout every 1000 retries changes no state
W_TryLock(t) ==
    LET f == th[t]  b == f.rbp IN
    /\ f.pc = "w_trylock"
    /\ IF rb[b].lock = NoThread
       THEN /\ rb' = [rb EXCEPT ![b].lock = t]
            /\ th' = [th EXCEPT ![t].pc = "w_full", ![t].old = Snapshot(rb[b])]
       ELSE /\ rb' = rb
            /\ th' = [th EXCEPT ![t] =
                        IF f.retries + 1 >= MaxRetries
                        THEN [f EXCEPT !.retries = f.retries + 1, !.pc = "ret",
                                       !.ret = FALSE,
                                       !.diag = "[WRITE] Mutex timeout! Possible deadlock."]
                        ELSE [f EXCEPT !.retries = f.retries + 1]]
    /\ UNCHANGED <<accepted, returned, heap, globals>>

\* mutant: a full buffer drops its oldest sample to make room
W_CheckFull_Overwrite(t) ==
    LET f == th[t]  b == f.rbp IN
    /\ f.pc = "w_full"
    /\ rb' = IF rb[b].curr_num_values = rb[b].max_num_values
             THEN [rb EXCEPT ![b].head = (@ + 1) % rb[b].max_num_values,
                             ![b].curr_num_values = @ - 1]
             ELSE rb
    /\ th' = [th EXCEPT ![t].pc = "w_store"]
    /\ UNCHANGED <<accepted, returned, heap, globals>>

\* mutant: the return on a full buffer forgets the unlock
W_CheckFull_KeepLock(t) ==
    LET f == th[t]  b == f.rbp IN
    /\ f.pc = "w_full"
    /\ rb' = rb
    /\ th' = IF ring_buffer_full(rb[b])
             THEN [th EXCEPT ![t].pc = "ret", ![t].ret = FALSE]
             ELSE [th EXCEPT ![t].pc = "w_store"]
    /\ UNCHANGED <<accepted, returned, heap, globals>>

\* 107-111: if full, unlock and return false
W_CheckFull(t) ==
    LET f == th[t]  b == f.rbp IN
    /\ f.pc = "w_full"
    /\ IF ring_buffer_full(rb[b])
       THEN /\ rb' = [rb EXCEPT ![b].lock = NoThread]
            /\ th' = [th EXCEPT ![t].pc = "ret", ![t].ret = FALSE]
       ELSE /\ rb' = rb
            /\ th' = [th EXCEPT ![t].pc = "w_store"]
    /\ UNCHANGED <<accepted, returned, heap, globals>>

\* 113: rb->buffer[rb->tail] = value
W_Store(t) ==
    LET f == th[t]  b == f.rbp IN
    /\ f.pc = "w_store"
    /\ rb' = [rb EXCEPT ![b].buffer[rb[b].tail] = f.value]
    /\ th' = [th EXCEPT ![t].pc = "w_count"]
    /\ UNCHANGED <<accepted, returned, heap, globals>>

\* mutant: the count is not incremented
W_Count_Forgotten(t) ==
    /\ th[t].pc = "w_count"
    /\ th' = [th EXCEPT ![t].pc = "w_tail"]
    /\ UNCHANGED <<rb, accepted, returned, heap, globals>>

\* 114: rb->curr_num_values++
W_Count(t) ==
    LET f == th[t]  b == f.rbp IN
    /\ f.pc = "w_count"
    /\ rb' = [rb EXCEPT ![b].curr_num_values = @ + 1]
    /\ th' = [th EXCEPT ![t].pc = "w_tail"]
    /\ UNCHANGED <<accepted, returned, heap, globals>>

\* 116: the tail increments or wraps around
W_Tail(t) ==
    LET f == th[t]  b == f.rbp IN
    /\ f.pc = "w_tail"
    /\ rb' = [rb EXCEPT ![b].tail = NextTail(rb[b])]
    /\ th' = [th EXCEPT ![t].pc = "w_unlock"]
    /\ UNCHANGED <<accepted, returned, heap, globals>>

\* 119-120: unlock and return true
W_Unlock(t) ==
    LET f == th[t]  b == f.rbp IN
    /\ f.pc = "w_unlock"
    /\ rb' = [rb EXCEPT ![b].lock = NoThread]
    /\ th' = [th EXCEPT ![t].pc = "ret", ![t].ret = TRUE]
    /\ accepted' = [accepted EXCEPT ![b] = Append(@, f.value)]
    /\ UNCHANGED <<returned, heap, globals>>

(***************************************************************************)
(* ring_buffer_overwrite, ring_buffer.c:135-168.                           *)
(***************************************************************************)
\* 139-149: the try-lock loop
O_TryLock(t) ==
    LET f == th[t]  b == f.rbp IN
    /\ f.pc = "o_trylock"
    /\ IF rb[b].lock = NoThread
       THEN /\ rb' = [rb EXCEPT ![b].lock = t]
            /\ th' = [th EXCEPT ![t].pc = "o_full", ![t].old = Snapshot(rb[b])]
       ELSE /\ rb' = rb
            /\ th' = [th EXCEPT ![t] =
                        IF f.retries + 1 >= MaxRetries
                        THEN [f EXCEPT !.retries = f.retries + 1, !.pc = "ret",
                                       !.ret = FALSE,
                                       !.diag = "[WRITE] Mutex timeout! Possible deadlock."]
                        ELSE [f EXCEPT !.retries = f.retries + 1]]
    /\ UNCHANGED <<accepted, returned, heap, globals>>

\* 154-158: if(ring_buffer_full(rb)) { pthread_mutex_unlock; return false; }
O_CheckFull(t) ==
    LET f == th[t]  b == f.rbp IN
    /\ f.pc = "o_full"
    /\ IF ring_buffer_full(rb[b])
       THEN /\ rb' = [rb EXCEPT ![b].lock = NoThread]
            /\ th' = [th EXCEPT ![t].pc = "ret", ![t].ret = FALSE]
       ELSE /\ rb' = rb
            /\ th' = [th EXCEPT ![t].pc = "o_store"]
    /\ UNCHANGED <<accepted, returned, heap, globals>>

\* 160: rb->buffer[rb->tail] = value
O_Store(t) ==
    LET f == th[t]  b == f.rbp IN
    /\ f.pc = "o_store"
    /\ rb' = [rb EXCEPT ![b].buffer[rb[b].tail] = f.value]
    /\ th' = [th EXCEPT ![t].pc = "o_count"]
    /\ UNCHANGED <<accepted, returned, heap, globals>>

\* 161: rb->curr_num_values++
O_Count(t) ==
    LET f == th[t]  b == f.rbp IN
    /\ f.pc = "o_count"
    /\ rb' = [rb EXCEPT ![b].curr_num_values = @ + 1]
    /\ th' = [th EXCEPT ![t].pc = "o_tail"]
    /\ UNCHANGED <<accepted, returned, heap, globals>>

\* 163: the tail increments or wraps around
O_Tail(t) ==
    LET f == th[t]  b == f.rbp IN
    /\ f.pc = "o_tail"
    /\ rb' = [rb EXCEPT ![b].tail = NextTail(rb[b])]
    /\ th' = [th EXCEPT ![t].pc = "o_unlock"]
    /\ UNCHANGED <<accepted, returned, heap, globals>>

\* 166-167: unlock and return true
O_Unlock(t) ==
    LET f == th[t]  b == f.rbp IN
    /\ f.pc = "o_unlock"
    /\ rb' = [rb EXCEPT ![b].lock = NoThread]
    /\ th' = [th EXCEPT ![t].pc = "ret", ![t].ret = TRUE]
    /\ accepted' = [accepted EXCEPT ![b] = Append(@, f.value)]
    /\ UNCHANGED <<returned, heap, globals>>

(***************************************************************************)
(* ring_buffer_read, ring_buffer.c:179-211.                                *)
(***************************************************************************)
\* mutant: the read that gives up prints nothing
R_TryLock_Silent(t) ==
    LET f == th[t]  b == f.rbp IN
    /\ f.pc = "r_trylock"
    /\ IF rb[b].lock = NoThread
       THEN /\ rb' = [rb EXCEPT ![b].lock = t]
            /\ th' = [th EXCEPT ![t].pc = "r_empty", ![t].old = Snapshot(rb[b])]
       ELSE /\ rb' = rb
            /\ th' = [th EXCEPT ![t] =
                        IF f.retries + 1 >= MaxRetries
                        THEN [f EXCEPT !.retries = f.retries + 1, !.pc = "ret",
                                       !.ret = FALSE]
                        ELSE [f EXCEPT !.retries = f.retries + 1]]
    /\ UNCHANGED <<accepted, returned, heap, globals>>

\* mutant: the reader goes on whether or not it got the mutex
R_TryLock_Barging(t) ==
    LET f == th[t]  b == f.rbp IN
    /\ f.pc = "r_trylock"
    /\ rb' = IF rb[b].lock = NoThread THEN [rb EXCEPT ![b].lock = t] ELSE rb
    /\ th' = [th EXCEPT ![t].pc = "r_empty", ![t].old = Snapshot(rb[b])]
    /\ UNCHANGED <<accepted, returned, heap, globals>>

\* 183-193: the same try-lock loop
R_TryLock(t) ==
    LET f == th[t]  b == f.rbp IN
    /\ f.pc = "r_trylock"
    /\ IF rb[b].lock = NoThread
       THEN /\ rb' = [rb EXCEPT ![b].lock = t]
            /\ th' = [th EXCEPT ![t].pc = "r_empty", ![t].old = Snapshot(rb[b])]
       ELSE /\ rb' = rb
            /\ th' = [th EXCEPT ![t] =
                        IF f.retries + 1 >= MaxRetries
                        THEN [f EXCEPT !.retries = f.retries + 1, !.pc = "ret",
                                       !.ret = FALSE,
                                       !.diag = "[READ] Mutex timeout! Possible deadlock."]
                        ELSE [f EXCEPT !.retries = f.retries + 1]]
    /\ UNCHANGED <<accepted, returned, heap, globals>>

\* mutant: a read that finds the buffer empty zeroes *result
R_CheckEmpty_ClearsResult(t) ==
    LET f == th[t]  b == f.rbp IN
    /\ f.pc = "r_empty"
    /\ IF ring_buffer_empty(rb[b])
       THEN /\ rb' = [rb EXCEPT ![b].lock = NoThread]
            /\ th' = [th EXCEPT ![t].pc = "ret", ![t].ret = FALSE,
                                ![t].result = Indeterminate]
       ELSE /\ rb' = rb
            /\ th' = [th EXCEPT ![t].pc = "r_load"]
    /\ UNCHANGED <<accepted, returned, heap, globals>>

\* 196-200: if empty, unlock and return false
R_CheckEmpty(t) ==
    LET f == th[t]  b == f.rbp IN
    /\ f.pc = "r_empty"
    /\ IF ring_buffer_empty(rb[b])
       THEN /\ rb' = [rb EXCEPT ![b].lock = NoThread]
            /\ th' = [th EXCEPT ![t].pc = "ret", ![t].ret = FALSE]
       ELSE /\ rb' = rb
            /\ th' = [th EXCEPT ![t].pc = "r_load"]
    /\ UNCHANGED <<accepted, returned, heap, globals>>

\* mutant: the sample is taken at the tail
R_Load_AtTail(t) ==
    LET f == th[t]  b == f.rbp IN
    /\ f.pc = "r_load"
    /\ \E x \in Loaded(rb[b].buffer[rb[b].tail]) :
          th' = [th EXCEPT ![t].pc = "r_count", ![t].result = x]
    /\ UNCHANGED <<rb, accepted, returned, heap, globals>>

\* 203: *result = rb->buffer[rb->head]
R_Load(t) ==
    LET f == th[t]  b == f.rbp IN
    /\ f.pc = "r_load"
    /\ \E x \in Loaded(rb[b].buffer[rb[b].head]) :
          th' = [th EXCEPT ![t].pc = "r_count", ![t].result = x]
    /\ UNCHANGED <<rb, accepted, returned, heap, globals>>

\* mutant: the count is not decremented
R_Count_Forgotten(t) ==
    /\ th[t].pc = "r_count"
    /\ th' = [th EXCEPT ![t].pc = "r_head"]
    /\ UNCHANGED <<rb, accepted, returned, heap, globals>>

\* 204: rb->curr_num_values--
R_Count(t) ==
    LET f == th[t]  b == f.rbp IN
    /\ f.pc = "r_count"
    /\ rb' = [rb EXCEPT ![b].curr_num_values = @ - 1]
    /\ th' = [th EXCEPT ![t].pc = "r_head"]
    /\ UNCHANGED <<accepted, returned, heap, globals>>

\* 206: the head increments or wraps around
R_Head(t) ==
    LET f == th[t]  b == f.rbp IN
    /\ f.pc = "r_head"
    /\ rb' = [rb EXCEPT ![b].head = NextHead(rb[b])]
    /\ th' = [th EXCEPT ![t].pc = "r_unlock"]
    /\ UNCHANGED <<accepted, returned, heap, globals>>

\* 209-210: unlock and return true
R_Unlock(t) ==
    LET f == th[t]  b == f.rbp IN
    /\ f.pc = "r_unlock"
    /\ rb' = [rb EXCEPT ![b].lock = NoThread]
    /\ th' = [th EXCEPT ![t].pc = "ret", ![t].ret = TRUE]
    /\ returned' = [returned EXCEPT ![b] = Append(@, f.result)]
    /\ UNCHANGED <<accepted, heap, globals>>

(***************************************************************************)
(* producer_thread and consumer_thread, thread_test_ring_buffer.c:66-131.  *)
(* The usleep between two calls changes no state.                          *)
(***************************************************************************)
\* 75-78: while (write_count < NUM_WRITES) { val = rand() % 1000; write(rb, val)
P_Call(t) ==
    /\ th[t].role = "producer"
    /\ th[t].pc = "loop"
    /\ IF th[t].count < th[t].limit
       THEN \E v \in Val : th' = [th EXCEPT ![t] = Call(@, "write", th[t].handle, v)]
       ELSE th' = [th EXCEPT ![t].pc = "done"]
    /\ UNCHANGED <<rb, accepted, returned, heap, globals>>

\* 78-89: if the write was accepted, write_count++; sleep; loop
P_Ret(t) ==
    /\ th[t].role = "producer"
    /\ th[t].pc = "ret"
    /\ th' = [th EXCEPT ![t].pc = "loop",
                        ![t].count = IF th[t].ret THEN @ + 1 ELSE @]
    /\ UNCHANGED <<rb, accepted, returned, heap, globals>>

\* 116-117: while (read_count < NUM_WRITES) { read(rb, &read_val)
C_Call(t) ==
    /\ th[t].role = "consumer"
    /\ th[t].pc = "loop"
    /\ th' = [th EXCEPT ![t] = IF @.count < @.limit
                               THEN Call(@, "read", @.handle, 0)
                               ELSE [@ EXCEPT !.pc = "done"]]
    /\ UNCHANGED <<rb, accepted, returned, heap, globals>>

\* 117-128: if the read succeeded, read_count++; sleep; loop
C_Ret(t) ==
    /\ th[t].role = "consumer"
    /\ th[t].pc = "ret"
    /\ th' = [th EXCEPT ![t].pc = "loop",
                        ![t].count = IF th[t].ret THEN @ + 1 ELSE @]
    /\ UNCHANGED <<rb, accepted, returned, heap, globals>>

(***************************************************************************)
(* worker_thread, thread_test_ring_buffer.c:144-192: each iteration reads  *)
(* from the input stage into read_val (result) and writes read_val to the  *)
(* output stage; count is rw_count.  handle is in->rb, out is out->rb.     *)
(* iter_read, iter_write and advanced tell what the current iteration has  *)
(* done so far; unwritten tells that read_val holds a value read and not   *)
(* yet accepted downstream, dropped that such a value was overwritten by   *)
(* the next read.  The in->read_vals[0] and out->written_vals[0] the       *)
(* worker stores into are read by nobody.                                  *)
(***************************************************************************)
\* 160-162: while (rw_count < NUM_WRITES) { ring_buffer_read(in->rb, &read_val)
Wk_CallRead(t) ==
    /\ th[t].role = "worker"
    /\ th[t].pc = "loop"
    /\ th' = [th EXCEPT ![t] =
                IF @.count < @.limit
                THEN [Call(@, "read", @.handle, 0) EXCEPT
                          !.iter_read = FALSE, !.iter_write = FALSE,
                          !.advanced = FALSE]
                ELSE [@ EXCEPT !.pc = "done"]]
    /\ UNCHANGED <<rb, accepted, returned, heap, globals>>

\* 162-175: if the read succeeded, did_read = 1; sleep; then, whatever the
\* read returned, ring_buffer_write(out->rb, read_val)
Wk_CallWrite(t) ==
    /\ th[t].role = "worker"
    /\ th[t].pc = "ret"
    /\ th[t].op = "read"
    /\ \E v \in Loaded(th[t].result) :
          th' = [th EXCEPT ![t] =
                   [Call(@, "write", @.out, v) EXCEPT
                        !.did_read = @ \/ th[t].ret,
                        !.iter_read = th[t].ret,
                        !.dropped = @ \/ (th[t].ret /\ th[t].unwritten),
                        !.unwritten = @ \/ th[t].ret]]
    /\ UNCHANGED <<rb, accepted, returned, heap, globals>>

\* 175-189: if the write succeeded, did_write = 1; sleep;
\* if (did_read && did_write) rw_count++
Wk_Ret(t) ==
    /\ th[t].role = "worker"
    /\ th[t].pc = "ret"
    /\ th[t].op = "write"
    /\ LET did_write == th[t].did_write \/ th[t].ret IN
       th' = [th EXCEPT ![t].pc = "loop",
                        ![t].did_write = did_write,
                        ![t].iter_write = th[t].ret,
                        ![t].unwritten = @ /\ ~th[t].ret,
                        ![t].advanced = th[t].did_read /\ did_write,
                        ![t].count = IF th[t].did_read /\ did_write THEN @ + 1 ELSE @]
    /\ UNCHANGED <<rb, accepted, returned, heap, globals>>

(***************************************************************************)
(* The single thread of the unit, edge and stress tests: it calls write    *)
(* and read one after the other, in any order, MaxOps times.               *)
(***************************************************************************)
M_CallWrite(t) ==
    /\ th[t].role = "main"
    /\ th[t].pc = "loop"
    /\ th[t].count < MaxOps
    /\ \E v \in Val : th' = [th EXCEPT ![t] = Call(@, "write", 0, v)]
    /\ UNCHANGED <<rb, accepted, returned, heap, globals>>

M_CallRead(t) ==
    /\ th[t].role = "main"
    /\ th[t].pc = "loop"
    /\ th[t].count < MaxOps
    /\ th' = [th EXCEPT ![t] = Call(@, "read", 0, 0)]
    /\ UNCHANGED <<rb, accepted, returned, heap, globals>>

\* a caller of ring_buffer_overwrite(rb, v)
M_CallOverwrite(t) ==
    /\ th[t].role = "main"
    /\ th[t].pc = "loop"
    /\ th[t].count < MaxOps
    /\ \E v \in Val :
          th' = [th EXCEPT ![t] = [Call(@, "overwrite", 0, v) EXCEPT !.pc = "o_trylock"]]
    /\ UNCHANGED <<rb, accepted, returned, heap, globals>>

M_Ret(t) ==
    /\ th[t].role = "main"
    /\ th[t].pc = "ret"
    /\ th' = [th EXCEPT ![t].pc = "loop", ![t].count = @ + 1,
                        ![t].prev = LastCall(th[t])]
    /\ UNCHANGED <<rb, accepted, returned, heap, globals>>

(***************************************************************************)
(* The life of a buffer in a single-threaded test: the struct is           *)
(* malloc'ed, ring_buffer_init is called with any capacity and may fail    *)
(* (the instance is then not used), write and read are called, and the     *)
(* buffer is torn down through SAFE_DESTROY, any number of times.          *)
(***************************************************************************)
\* ring_buffer_init, ring_buffer.c:37-52, with malloc succeeding or not
L_Init(t) ==
    /\ th[t].role = "main"
    /\ th[t].pc = "start"
    /\ \E capacity \in -1 .. MaxCap, ok \in BOOLEAN :
          LET b == th[t].handle
              \* 39: the lock is set up first
              locked == [rb EXCEPT ![b].lock = NoThread]
              minit  == [heap EXCEPT ![b].mutex = "init"]
          IN  IF InvalidCapacity(capacity)
              THEN /\ rb' = locked
                   /\ heap' = minit
                   /\ th' = [th EXCEPT ![t].pc = "init_ret", ![t].op = "init",
                                       ![t].value = capacity, ![t].ret = FALSE]
              ELSE IF ~ok
              THEN /\ rb' = [locked EXCEPT ![b].max_num_values = capacity,
                                           ![b].buffer = <<>>]
                   /\ heap' = [minit EXCEPT ![b].malloc_failed = TRUE]
                   /\ th' = [th EXCEPT ![t].pc = "init_ret", ![t].op = "init",
                                       ![t].value = capacity, ![t].ret = FALSE]
              ELSE /\ rb' = [rb EXCEPT ![b] =
                               ring_buffer_init(capacity,
                                   [i \in 0 .. capacity - 1 |-> Indeterminate])]
                   /\ heap' = [minit EXCEPT ![b].storage = "allocated"]
                   /\ th' = [th EXCEPT ![t].pc = "init_ret", ![t].op = "init",
                                       ![t].value = capacity, ![t].ret = TRUE]
    /\ UNCHANGED <<accepted, returned, globals>>

\* the caller goes on to use the buffer only if ring_buffer_init returned true
L_InitRet(t) ==
    /\ th[t].role = "main"
    /\ th[t].pc = "init_ret"
    /\ th' = [th EXCEPT ![t].pc = IF th[t].ret THEN "loop" ELSE "failed",
                        ![t].prev = LastCall(th[t])]
    /\ UNCHANGED <<rb, accepted, returned, heap, globals>>

\* SAFE_DESTROY(rb), between two calls or after an earlier SAFE_DESTROY
L_SafeDestroy(t) ==
    /\ th[t].role = "main"
    /\ th[t].pc \in {"loop", "destroyed"}
    /\ th[t].count < MaxOps
    /\ LET d == SAFE_DESTROY(heap, rb, th[t].handle) IN
       /\ heap' = d.heap
       /\ rb' = d.rb
       /\ th' = [th EXCEPT ![t].pc = "destroyed", ![t].handle = d.handle,
                           ![t].op = "destroy", ![t].count = @ + 1,
                           ![t].prev = LastCall(th[t])]
    /\ UNCHANGED <<accepted, returned, globals>>

\* ring_buffer_destroy(rb) called on a handle that is NULL
L_DestroyNull(t) ==
    /\ th[t].role = "main"
    /\ th[t].pc = "destroyed"
    /\ th[t].handle = NULL
    /\ th[t].count < MaxOps
    /\ LET d == ring_buffer_destroy(heap, rb, th[t].handle) IN
       /\ heap' = d.heap
       /\ rb' = d.rb
    /\ th' = [th EXCEPT ![t].op = "destroy_null", ![t].count = @ + 1,
                        ![t].prev = LastCall(th[t])]
    /\ UNCHANGED <<accepted, returned, globals>>

(***************************************************************************)
(* Any other thread that takes the mutex of the buffer (the try-lock of    *)
(* lines 92/183) and keeps it for as long as it likes, for ever included,  *)
(* before the unlock of lines 119/209.                                     *)
(***************************************************************************)
H_Lock(t) ==
    /\ th[t].role = "holder"
    /\ th[t].pc = "loop"
    /\ rb[th[t].rbp].lock = NoThread
    /\ rb' = [rb EXCEPT ![th[t].rbp].lock = t]
    /\ th' = [th EXCEPT ![t].pc = "held"]
    /\ UNCHANGED <<accepted, returned, heap, globals>>

H_Unlock(t) ==
    /\ th[t].role = "holder"
    /\ th[t].pc = "held"
    /\ rb' = [rb EXCEPT ![th[t].rbp].lock = NoThread]
    /\ th' = [th EXCEPT ![t].pc = "loop"]
    /\ UNCHANGED <<accepted, returned, heap, globals>>

(***************************************************************************)
(* Specifications.                                                         *)
(***************************************************************************)
InitBuffers ==
    \E capacity \in 1 .. MaxCap :
        /\ rb = [b \in {0} |-> ring_buffer_init(capacity, [i \in 0 .. capacity - 1 |-> Indeterminate])]
        /\ heap = [b \in {0} |-> Inited]

InitHistory ==
    /\ accepted = [b \in {0} |-> <<>>]
    /\ returned = [b \in {0} |-> <<>>]

\* eeg_app.c:30-31: keep_running = 1, eeg_buffer_global = NULL; no open port
InitGlobals ==
    /\ keep_running = 1
    /\ eeg_buffer_global = NULL
    /\ fd_in = [eof |-> FALSE, bytes |-> 0]

\* thread_pressure after ring_buffer_init and the two pthread_create
Init ==
    /\ InitBuffers
    /\ th = [t \in {"prod", "cons"} |->
                IF t = "prod" THEN NewThread("producer") ELSE NewThread("consumer")]
    /\ InitHistory
    /\ InitGlobals

Next ==
    \/ \E t \in Threads : P_Call(t)
    \/ \E t \in Threads : P_Ret(t)
    \/ \E t \in Threads : C_Call(t)
    \/ \E t \in Threads : C_Ret(t)
    \/ \E t \in Threads : W_TryLock(t)
    \/ \E t \in Threads : W_CheckFull(t)
    \/ \E t \in Threads : W_Store(t)
    \/ \E t \in Threads : W_Count(t)
    \/ \E t \in Threads : W_Tail(t)
    \/ \E t \in Threads : W_Unlock(t)
    \/ \E t \in Threads : R_TryLock(t)
    \/ \E t \in Threads : R_CheckEmpty(t)
    \/ \E t \in Threads : R_Load(t)
    \/ \E t \in Threads : R_Count(t)
    \/ \E t \in Threads : R_Head(t)
    \/ \E t \in Threads : R_Unlock(t)

Spec == Init /\ [][Next]_vars

\* main of a single-threaded test after ring_buffer_init
InitSeq ==
    /\ InitBuffers
    /\ th = [t \in {"main"} |-> NewThread("main")]
    /\ InitHistory
    /\ InitGlobals

NextSeq ==
    \/ \E t \in Threads : M_CallWrite(t)
    \/ \E t \in Threads : M_CallRead(t)
    \/ \E t \in Threads : M_Ret(t)
    \/ \E t \in Threads : W_TryLock(t)
    \/ \E t \in Threads : W_CheckFull(t)
    \/ \E t \in Threads : W_Store(t)
    \/ \E t \in Threads : W_Count(t)
    \/ \E t \in Threads : W_Tail(t)
    \/ \E t \in Threads : W_Unlock(t)
    \/ \E t \in Threads : R_TryLock(t)
    \/ \E t \in Threads : R_CheckEmpty(t)
    \/ \E t \in Threads : R_Load(t)
    \/ \E t \in Threads : R_Count(t)
    \/ \E t \in Threads : R_Head(t)
    \/ \E t \in Threads : R_Unlock(t)

SpecSeq == InitSeq /\ [][NextSeq]_vars

\* a step of thread t inside ring_buffer_write or ring_buffer_read
CallStep(t) ==
    \/ W_TryLock(t)
    \/ W_CheckFull(t)
    \/ W_Store(t)
    \/ W_Count(t)
    \/ W_Tail(t)
    \/ W_Unlock(t)
    \/ R_TryLock(t)
    \/ R_CheckEmpty(t)
    \/ R_Load(t)
    \/ R_Count(t)
    \/ R_Head(t)
    \/ R_Unlock(t)

\* one caller of write and read, and another thread that holds the mutex
\* whenever and for as long as it likes
InitLock ==
    /\ InitBuffers
    /\ th = [t \in {"main", "other"} |->
                IF t = "main" THEN NewThread("main") ELSE NewThread("holder")]
    /\ InitHistory
    /\ InitGlobals

NextLock ==
    \/ \E t \in Threads : M_CallWrite(t)
    \/ \E t \in Threads : M_CallRead(t)
    \/ \E t \in Threads : M_Ret(t)
    \/ \E t \in Threads : W_TryLock(t)
    \/ \E t \in Threads : W_CheckFull(t)
    \/ \E t \in Threads : W_Store(t)
    \/ \E t \in Threads : W_Count(t)
    \/ \E t \in Threads : W_Tail(t)
    \/ \E t \in Threads : W_Unlock(t)
    \/ \E t \in Threads : R_TryLock(t)
    \/ \E t \in Threads : R_CheckEmpty(t)
    \/ \E t \in Threads : R_Load(t)
    \/ \E t \in Threads : R_Count(t)
    \/ \E t \in Threads : R_Head(t)
    \/ \E t \in Threads : R_Unlock(t)
    \/ \E t \in Threads : H_Lock(t)
    \/ \E t \in Threads : H_Unlock(t)

\* the caller is scheduled again and again (its usleep(10) returns); nothing
\* is assumed of the other thread
SpecLock == InitLock /\ [][NextLock]_vars /\ WF_vars(CallStep("main"))

\* one caller of overwrite and read, and another thread that holds the mutex
\* now and then
NextOver ==
    \/ \E t \in Threads : M_CallOverwrite(t)
    \/ \E t \in Threads : M_CallRead(t)
    \/ \E t \in Threads : M_Ret(t)
    \/ \E t \in Threads : O_TryLock(t)
    \/ \E t \in Threads : O_CheckFull(t)
    \/ \E t \in Threads : O_Store(t)
    \/ \E t \in Threads : O_Count(t)
    \/ \E t \in Threads : O_Tail(t)
    \/ \E t \in Threads : O_Unlock(t)
    \/ \E t \in Threads : R_TryLock(t)
    \/ \E t \in Threads : R_CheckEmpty(t)
    \/ \E t \in Threads : R_Load(t)
    \/ \E t \in Threads : R_Count(t)
    \/ \E t \in Threads : R_Head(t)
    \/ \E t \in Threads : R_Unlock(t)
    \/ \E t \in Threads : H_Lock(t)
    \/ \E t \in Threads : H_Unlock(t)

SpecOver == InitLock /\ [][NextOver]_vars

\* any step of the producer or consumer thread t
ThreadStep(t) ==
    \/ P_Call(t)
    \/ P_Ret(t)
    \/ C_Call(t)
    \/ C_Ret(t)
    \/ CallStep(t)

\* the pthread_mutex_trylock of t that finds the mutex free
Acquire(t) ==
    /\ rb[th[t].rbp].lock = NoThread
    /\ W_TryLock(t) \/ R_TryLock(t)

\* a thread that tries the mutex again and again gets it again and again:
\* one call tries for 100000 * usleep(10), a second or more, while the other
\* thread holds the mutex for a few statements without a sleep
LockFair(t) ==
    []<>(th[t].pc \in {"w_trylock", "r_trylock"}) => []<><<Acquire(t)>>_vars

\* thread_pressure under fair scheduling: each thread keeps being scheduled
\* and keeps getting the mutex
SpecFair ==
    /\ Init
    /\ [][Next]_vars
    /\ \A t \in {"prod", "cons"} : WF_vars(ThreadStep(t)) /\ LockFair(t)

\* thread_pipeline_stress after the ring_buffer_init of its stages and its
\* pthread_create: the producer on the first stage, worker i between stage i
\* and stage i + 1, the consumer on the last stage
Stages == 0 .. NumStages - 1

\* 326-328: wargs[i].thread_id = i, between stages[i] and stages[i + 1]
thread_id == <<"worker0", "worker1", "worker2">>

WorkerOf == [t \in {thread_id[i + 1] : i \in 0 .. NumStages - 2} |->
                CHOOSE i \in 0 .. NumStages - 2 : thread_id[i + 1] = t]

InitPipe ==
    /\ rb = [b \in Stages |->
               ring_buffer_init(PipeCap, [i \in 0 .. PipeCap - 1 |-> Indeterminate])]
    /\ heap = [b \in Stages |-> Inited]
    /\ accepted = [b \in Stages |-> <<>>]
    /\ returned = [b \in Stages |-> <<>>]
    /\ InitGlobals
    /\ th = [t \in {"prod", "cons"} \cup DOMAIN WorkerOf |->
               IF t = "prod"
               THEN [NewThread("producer") EXCEPT !.limit = PipeWrites, !.handle = 0]
               ELSE IF t = "cons"
               THEN [NewThread("consumer") EXCEPT !.limit = PipeWrites,
                                                  !.handle = NumStages - 1]
               ELSE [NewThread("worker") EXCEPT !.limit = PipeWrites,
                                                !.handle = WorkerOf[t],
                                                !.out = WorkerOf[t] + 1]]

NextPipe ==
    \/ \E t \in Threads : P_Call(t)
    \/ \E t \in Threads : P_Ret(t)
    \/ \E t \in Threads : C_Call(t)
    \/ \E t \in Threads : C_Ret(t)
    \/ \E t \in Threads : Wk_CallRead(t)
    \/ \E t \in Threads : Wk_CallWrite(t)
    \/ \E t \in Threads : Wk_Ret(t)
    \/ \E t \in Threads : W_TryLock(t)
    \/ \E t \in Threads : W_CheckFull(t)
    \/ \E t \in Threads : W_Store(t)
    \/ \E t \in Threads : W_Count(t)
    \/ \E t \in Threads : W_Tail(t)
    \/ \E t \in Threads : W_Unlock(t)
    \/ \E t \in Threads : R_TryLock(t)
    \/ \E t \in Threads : R_CheckEmpty(t)
    \/ \E t \in Threads : R_Load(t)
    \/ \E t \in Threads : R_Count(t)
    \/ \E t \in Threads : R_Head(t)
    \/ \E t \in Threads : R_Unlock(t)

SpecPipe == InitPipe /\ [][NextPipe]_vars

\* main of a single-threaded test after rb = malloc(sizeof(ring_buffer)):
\* the fields of the struct hold anything
InitLife ==
    /\ \E h \in AnyInt, l \in AnyInt, c \in AnyInt, m \in AnyInt :
          rb = [b \in {0} |->
                  [ buffer |-> <<>>, head |-> h, tail |-> l, curr_num_values |-> c,
                    max_num_values |-> m, lock |-> NoThread ]]
    /\ heap = [b \in {0} |-> Malloced]
    /\ th = [t \in {"main"} |-> [NewThread("main") EXCEPT !.pc = "start"]]
    /\ InitHistory
    /\ InitGlobals

NextLife ==
    \/ \E t \in Threads : L_Init(t)
    \/ \E t \in Threads : L_InitRet(t)
    \/ \E t \in Threads : L_SafeDestroy(t)
    \/ \E t \in Threads : L_DestroyNull(t)
    \/ \E t \in Threads : M_CallWrite(t)
    \/ \E t \in Threads : M_CallRead(t)
    \/ \E t \in Threads : M_Ret(t)
    \/ \E t \in Threads : W_TryLock(t)
    \/ \E t \in Threads : W_CheckFull(t)
    \/ \E t \in Threads : W_Store(t)
    \/ \E t \in Threads : W_Count(t)
    \/ \E t \in Threads : W_Tail(t)
    \/ \E t \in Threads : W_Unlock(t)
    \/ \E t \in Threads : R_TryLock(t)
    \/ \E t \in Threads : R_CheckEmpty(t)
    \/ \E t \in Threads : R_Load(t)
    \/ \E t \in Threads : R_Count(t)
    \/ \E t \in Threads : R_Head(t)
    \/ \E t \in Threads : R_Unlock(t)

SpecLife == InitLife /\ [][NextLife]_vars

(***************************************************************************)
(* The application, eeg_app.c: main mallocs and initialises one buffer,    *)
(* starts producer_thread, which runs read_serial_data on that buffer,     *)
(* runs the visualization and joins the producer.  SIGINT runs             *)
(* handle_sigint at any moment.  The serial port hands out, at each read,  *)
(* some of the bytes the device has still to send, or an error; once the   *)
(* port is at end of file every read returns 0.                            *)
(***************************************************************************)
\* sizeof(float)
FLOAT_SIZE == 4

\* the bytes the device sends at most
MaxBytes == 8

Min(a, b) == IF a < b THEN a ELSE b

\* read(fd_in, buffer + total_bytes_read, want): 0 at end of file, else -1
\* or as many bytes as there are, want at most
ReadResults(port, want) ==
    IF port.eof THEN {0} ELSE {-1} \cup (1 .. Min(want, port.bytes))

\* eeg_app.c:38-45: keep_running = 0; if (eeg_buffer_global) SAFE_DESTROY
handle_sigint ==
    /\ \E t \in Threads : th[t].role = "app" /\ th[t].pc # "exit"
    /\ keep_running' = 0
    /\ LET d == SAFE_DESTROY(heap, rb, eeg_buffer_global) IN
       /\ heap' = d.heap
       /\ rb' = d.rb
       /\ eeg_buffer_global' = d.handle
    /\ UNCHANGED <<th, accepted, returned, fd_in>>

\* the device is unplugged, or the stream ends
Port_Eof ==
    /\ ~fd_in.eof
    /\ fd_in' = [fd_in EXCEPT !.eof = TRUE]
    /\ UNCHANGED <<rb, th, accepted, returned, heap, keep_running, eeg_buffer_global>>

\* read_serial_data.c:247-248: while (keep_running) serial_reader(fd, rb)
RSD_Loop(t) ==
    /\ th[t].role = "serial"
    /\ th[t].pc = "rsd_loop"
    /\ th' = [th EXCEPT ![t].pc = IF keep_running # 0 THEN "sr_loop" ELSE "rsd_close"]
    /\ UNCHANGED <<rb, accepted, returned, heap, globals>>

\* 251-252: close(fd); read_serial_data and producer_thread return
RSD_Close(t) ==
    /\ th[t].role = "serial"
    /\ th[t].pc = "rsd_close"
    /\ th' = [th EXCEPT ![t].pc = "done"]
    /\ UNCHANGED <<rb, accepted, returned, heap, globals>>

\* mutant: the loop of serial_reader goes on whatever the flag
SR_Loop_Unpolled(t) ==
    /\ th[t].role = "serial"
    /\ th[t].pc = "sr_loop"
    /\ th' = [th EXCEPT ![t].pc = "sr_read", ![t].total_bytes_read = 0]
    /\ UNCHANGED <<rb, accepted, returned, heap, globals>>

\* serial_reader, 109-110: while (keep_running) { total_bytes_read = 0
SR_Loop(t) ==
    /\ th[t].role = "serial"
    /\ th[t].pc = "sr_loop"
    /\ th' = [th EXCEPT ![t] = IF keep_running # 0
                               THEN [@ EXCEPT !.pc = "sr_read", !.total_bytes_read = 0]
                               ELSE [@ EXCEPT !.pc = "rsd_loop"]]
    /\ UNCHANGED <<rb, accepted, returned, heap, globals>>

\* 113-127: one turn of while (total_bytes_read < FLOAT_SIZE): n > 0 is added
\* to total_bytes_read, n == 0 goes round again, n < 0 breaks out
SR_Read(t) ==
    /\ th[t].role = "serial"
    /\ th[t].pc = "sr_read"
    /\ IF th[t].total_bytes_read < FLOAT_SIZE
       THEN \E n \in ReadResults(fd_in, FLOAT_SIZE - th[t].total_bytes_read) :
               IF n > 0
               THEN /\ th' = [th EXCEPT ![t].total_bytes_read = @ + n]
                    /\ fd_in' = [fd_in EXCEPT !.bytes = @ - n]
               ELSE IF n = 0
               THEN UNCHANGED <<th, fd_in>>
               ELSE /\ th' = [th EXCEPT ![t].pc = "sr_check"]
                    /\ fd_in' = fd_in
       ELSE /\ th' = [th EXCEPT ![t].pc = "sr_check"]
            /\ fd_in' = fd_in
    /\ UNCHANGED <<rb, accepted, returned, heap, keep_running, eeg_buffer_global>>

\* 130-134: if (total_bytes_read == FLOAT_SIZE) ring_buffer_write(rb_in, voltage)
SR_Write(t) ==
    /\ th[t].role = "serial"
    /\ th[t].pc = "sr_check"
    /\ IF th[t].total_bytes_read = FLOAT_SIZE
       THEN \E v \in Val : th' = [th EXCEPT ![t] = Call(@, "write", th[t].handle, v)]
       ELSE th' = [th EXCEPT ![t].pc = "sr_loop"]
    /\ UNCHANGED <<rb, accepted, returned, heap, globals>>

\* 134-135: the return value of ring_buffer_write is dropped; test_counter++
SR_Ret(t) ==
    /\ th[t].role = "serial"
    /\ th[t].pc = "ret"
    /\ th' = [th EXCEPT ![t].pc = "sr_loop",
                        ![t].late_writes = IF keep_running = 0 THEN @ + 1 ELSE @]
    /\ UNCHANGED <<rb, accepted, returned, heap, globals>>

\* eeg_app.c:83-85: start_visualization returns
A_VizReturn(t) ==
    /\ th[t].role = "app"
    /\ th[t].pc = "viz"
    /\ th' = [th EXCEPT ![t].pc = "join"]
    /\ UNCHANGED <<rb, accepted, returned, heap, globals>>

\* eeg_app.c:88-90: pthread_join(prod, NULL); return 0
A_Join(t) ==
    /\ th[t].role = "app"
    /\ th[t].pc = "join"
    /\ \A u \in Threads : th[u].role = "serial" => th[u].pc = "done"
    /\ th' = [th EXCEPT ![t].pc = "exit"]
    /\ UNCHANGED <<rb, accepted, returned, heap, globals>>

\* eeg_app.c:59-79: after signal, malloc, ring_buffer_init and pthread_create;
\* read_serial_data.c:240-246: the port is open and set up
InitApp ==
    /\ InitBuffers
    /\ InitHistory
    /\ keep_running = 1
    /\ eeg_buffer_global = NULL
    /\ fd_in = [eof |-> FALSE, bytes |-> MaxBytes]
    /\ th = [t \in {"main", "prod"} |->
                IF t = "main" THEN [NewThread("app") EXCEPT !.pc = "viz"]
                ELSE [NewThread("serial") EXCEPT !.pc = "rsd_loop"]]

\* a step of the producer thread t of the application
SerialStep(t) ==
    \/ RSD_Loop(t)
    \/ RSD_Close(t)
    \/ SR_Loop(t)
    \/ SR_Read(t)
    \/ SR_Write(t)
    \/ SR_Ret(t)
    \/ W_TryLock(t)
    \/ W_CheckFull(t)
    \/ W_Store(t)
    \/ W_Count(t)
    \/ W_Tail(t)
    \/ W_Unlock(t)

NextApp ==
    \/ handle_sigint
    \/ Port_Eof
    \/ \E t \in Threads : RSD_Loop(t)
    \/ \E t \in Threads : RSD_Close(t)
    \/ \E t \in Threads : SR_Loop(t)
    \/ \E t \in Threads : SR_Read(t)
    \/ \E t \in Threads : SR_Write(t)
    \/ \E t \in Threads : SR_Ret(t)
    \/ \E t \in Threads : W_TryLock(t)
    \/ \E t \in Threads : W_CheckFull(t)
    \/ \E t \in Threads : W_Store(t)
    \/ \E t \in Threads : W_Count(t)
    \/ \E t \in Threads : W_Tail(t)
    \/ \E t \in Threads : W_Unlock(t)
    \/ \E t \in Threads : A_VizReturn(t)
    \/ \E t \in Threads : A_Join(t)

\* the scheduler runs the producer thread again and again, and main's join
\* returns once the producer has ended
SpecApp ==
    /\ InitApp
    /\ [][NextApp]_vars
    /\ WF_vars(SerialStep("prod"))
    /\ WF_vars(A_Join("main"))

(***************************************************************************)
(* Several writers and several readers on one buffer, the use that the     *)
(* header of thread_test_ring_buffer.c leaves out: two producer_thread and *)
(* two consumer_thread on the same ring_buffer, each until MultiWrites of  *)
(* its calls have succeeded.                                               *)
(***************************************************************************)
MultiWrites == 1

Writers == {"prod1", "prod2"}

Readers == {"cons1", "cons2"}

InitMulti ==
    /\ InitBuffers
    /\ InitHistory
    /\ InitGlobals
    /\ th = [t \in Writers \cup Readers |->
                IF t \in Writers
                THEN [NewThread("producer") EXCEPT !.limit = MultiWrites]
                ELSE [NewThread("consumer") EXCEPT !.limit = MultiWrites]]

SpecMulti == InitMulti /\ [][Next]_vars

(***************************************************************************)
(* Properties.                                                             *)
(***************************************************************************)
IsPrefix(s, q) == Len(s) <= Len(q) /\ SubSeq(q, 1, Len(s)) = s

\* the samples written and not yet read, oldest first
Pending(r) ==
    [i \in 1 .. r.curr_num_values |-> r.buffer[(r.head + i - 1) % r.max_num_values]]

InWrite(f) == f.pc \in {"w_trylock", "w_full", "w_store", "w_count", "w_tail", "w_unlock"}

InRead(f) == f.pc \in {"r_trylock", "r_empty", "r_load", "r_count", "r_head", "r_unlock"}

\* between the successful pthread_mutex_trylock and the pthread_mutex_unlock
InCritical(f) ==
    f.pc \in {"w_full", "w_store", "w_count", "w_tail", "w_unlock",
              "r_empty", "r_load", "r_count", "r_head", "r_unlock"}

\* 98-100, 189-191: the "waiting for lock after %d retries" lines the call
\* of f has printed on stdout: one at every NoticeEvery-th failed try-lock,
\* but for the try-lock at which the call gave up (it returns before)
Notices(f) ==
    IF f.diag # "" THEN (f.retries - 1) \div NoticeEvery
    ELSE f.retries \div NoticeEvery

\* f has returned because its retries were exhausted: it never had the lock
TimedOut(f) == f.pc = "ret" /\ ~f.ret /\ f.old = NoSnapshot

\* f has returned false after it had the lock: buffer full, or empty
Rejected(f) == f.pc = "ret" /\ ~f.ret /\ f.old # NoSnapshot

\* thread t has just returned from a call of op
Returned(t, op) == th[t].pc = "ret" /\ th[t].op = op

\* s is q with some of its elements left out
RECURSIVE IsSubsequence(_, _)
IsSubsequence(s, q) ==
    IF s = <<>> THEN TRUE
    ELSE IF q = <<>> THEN FALSE
    ELSE IF Head(s) = Head(q) THEN IsSubsequence(Tail(s), Tail(q))
    ELSE IsSubsequence(s, Tail(q))

\* the values the entry producer had accepted by the first stage, and the
\* values the final consumer has read from the last stage
Emitted == accepted[0]

Observed == returned[NumStages - 1]

\* C1 (SpecSeq): FIFO law in one thread.  For every capacity and every
\* sequence of write and read calls, the k-th successful read returns the
\* value of the k-th accepted write; so N writes followed by N reads give
\* the written sequence back in order.
C1_FifoLaw ==
    \A b \in Buffers :
        \A k \in 1 .. Len(returned[b]) :
            /\ k <= Len(accepted[b])
            /\ returned[b][k] = accepted[b][k]

\* N = MaxCap distinct-ended writes, then N reads, all read back
C1_Witness ==
    \E b \in Buffers :
        /\ rb[b].max_num_values = MaxCap
        /\ Len(accepted[b]) = MaxCap
        /\ returned[b] = accepted[b]
        /\ accepted[b][1] # accepted[b][MaxCap]

\* C2 (Spec): one writer thread, one reader thread, every interleaving,
\* failed calls included: the values returned by successful reads are always
\* a prefix of the values accepted by successful writes, and whenever the
\* lock is free the accepted values not yet returned are exactly the samples
\* pending in the buffer (nothing lost, duplicated or reordered).
C2_LosslessOrdered ==
    \A b \in Buffers :
        /\ IsPrefix(returned[b], accepted[b])
        /\ rb[b].lock = NoThread => accepted[b] = returned[b] \o Pending(rb[b])

\* a call has just timed out on the lock, after the buffer wrapped and
\* values were read
C2_Witness ==
    \E b \in Buffers, t \in Threads :
        /\ th[t].pc = "ret" /\ th[t].diag # ""
        /\ Len(accepted[b]) > rb[b].max_num_values
        /\ Len(returned[b]) >= 2

\* C3 (Spec): in every reachable state, inside the critical section too,
\* 0 <= count <= capacity, 0 <= head < capacity and 0 <= tail < capacity.
C3_Bounds ==
    \A b \in Buffers :
        /\ 0 <= rb[b].curr_num_values /\ rb[b].curr_num_values <= rb[b].max_num_values
        /\ 0 <= rb[b].head /\ rb[b].head < rb[b].max_num_values
        /\ 0 <= rb[b].tail /\ rb[b].tail < rb[b].max_num_values

\* a full buffer whose head is at the last index (the tail has wrapped)
C3_Witness ==
    \E b \in Buffers :
        /\ rb[b].max_num_values > 1
        /\ rb[b].curr_num_values = rb[b].max_num_values
        /\ rb[b].head = rb[b].max_num_values - 1

\* C4 (Spec): whenever the lock of a buffer is not held,
\* tail = (head + count) mod capacity.
C4_TailIsHeadPlusCount ==
    \A b \in Buffers :
        rb[b].lock = NoThread =>
            rb[b].tail = (rb[b].head + rb[b].curr_num_values) % rb[b].max_num_values

\* the lock is free and the pending samples straddle the end of the array
C4_Witness ==
    \E b \in Buffers :
        /\ rb[b].lock = NoThread
        /\ rb[b].curr_num_values > 1
        /\ rb[b].tail <= rb[b].head

\* C5 (SpecSeq): a write is rejected exactly when the buffer is full, and a
\* rejected write changes nothing: count = N, head = tail and every sample
\* are as before; the first N writes to an empty buffer are accepted and
\* the rejection comes with the (N+1)-th.
C5_WriteWhenFull ==
    \A t \in Threads :
        Returned(t, "write") =>
            LET r == rb[th[t].rbp]  o == th[t].old IN
            /\ th[t].ret = (o.curr_num_values # r.max_num_values)
            /\ ~th[t].ret =>
                  /\ Snapshot(r) = o
                  /\ r.curr_num_values = r.max_num_values
                  /\ r.head = r.tail
                  /\ returned[th[t].rbp] = <<>> =>
                        Len(accepted[th[t].rbp]) = r.max_num_values

\* the write after MaxCap accepted writes to a new buffer has been rejected
C5_Witness ==
    \E t \in Threads :
        /\ Returned(t, "write") /\ ~th[t].ret
        /\ rb[th[t].rbp].max_num_values = MaxCap
        /\ returned[th[t].rbp] = <<>>
        /\ th[t].count = MaxCap

\* C6 (Spec): a read that finds the buffer empty returns false with its next
\* step (it does not wait for a sample) and leaves head, tail, count and
\* the samples unchanged, the lock released.
C6_ReadWhenEmpty ==
    [][\A t \in Threads :
          LET b == th[t].rbp IN
          (th[t].pc = "r_empty" /\ rb[b].curr_num_values = 0 /\ th'[t] # th[t]) =>
              /\ th'[t].pc = "ret" /\ th'[t].ret = FALSE
              /\ th'[t].result = th[t].result
              /\ Snapshot(rb'[b]) = Snapshot(rb[b])
              /\ Snapshot(rb'[b]) = th[t].old
              /\ rb'[b].lock = NoThread]_vars

\* a read returned false on a buffer that was written, read and drained
C6_Witness ==
    \E t \in Threads :
        /\ Returned(t, "read") /\ ~th[t].ret /\ th[t].diag = ""
        /\ returned[th[t].rbp] # <<>>
        /\ returned[th[t].rbp] = accepted[th[t].rbp]

\* C7 (Spec): when a write returns true, the slot at the tail it found
\* holds the value, count is one more than it found, and tail is
\* (old tail + 1) mod capacity.
C7_AcceptedWrite ==
    [][\A t \in Threads :
          LET b == th[t].rbp  o == th[t].old IN
          (InWrite(th[t]) /\ th'[t].pc = "ret" /\ th'[t].ret) =>
              /\ rb'[b].buffer[o.tail] = th[t].value
              /\ rb'[b].curr_num_values = o.curr_num_values + 1
              /\ rb'[b].tail = (o.tail + 1) % rb[b].max_num_values]_vars

\* a write into the last slot has returned true: the tail wrapped to 0
C7_Witness ==
    \E t \in Threads :
        /\ Returned(t, "write") /\ th[t].ret
        /\ rb[th[t].rbp].max_num_values > 1
        /\ th[t].old.tail = rb[th[t].rbp].max_num_values - 1
        /\ th[t].old.head > 0

\* C8 (Spec): when a read returns true, the caller holds the sample of the
\* slot at the head it found, count is one less than it found, and head is
\* (old head + 1) mod capacity.
C8_SuccessfulRead ==
    [][\A t \in Threads :
          LET b == th[t].rbp  o == th[t].old IN
          (InRead(th[t]) /\ th'[t].pc = "ret" /\ th'[t].ret) =>
              /\ th'[t].result = o.buffer[o.head]
              /\ rb'[b].curr_num_values = o.curr_num_values - 1
              /\ rb'[b].head = (o.head + 1) % rb[b].max_num_values]_vars

\* a read of the last slot has returned true: the head wrapped to 0
C8_Witness ==
    \E t \in Threads :
        /\ Returned(t, "read") /\ th[t].ret
        /\ rb[th[t].rbp].max_num_values > 1
        /\ th[t].old.head = rb[th[t].rbp].max_num_values - 1
        /\ th[t].result = th[t].old.buffer[th[t].old.head]

\* C9 (Spec): no step of ring_buffer_write, whatever the call's outcome,
\* changes head; no step of ring_buffer_read changes tail or a stored sample.
C9_IndexOwnership ==
    [][\A t \in Threads :
          LET b == th[t].rbp IN
          /\ (InWrite(th[t]) /\ th'[t] # th[t]) => rb'[b].head = rb[b].head
          /\ (InRead(th[t]) /\ th'[t] # th[t]) =>
                /\ rb'[b].tail = rb[b].tail
                /\ rb'[b].buffer = rb[b].buffer]_vars

\* a write has just given up on the lock (the reader held it), on a buffer
\* whose head and tail have both moved
C9_Witness ==
    \E t \in Threads :
        /\ Returned(t, "write") /\ ~th[t].ret /\ th[t].diag # ""
        /\ rb[th[t].rbp].head > 0
        /\ rb[th[t].rbp].tail > 0

\* C10 as stated (SpecSeq): write(v) followed immediately by read() returns v.
C10_Original ==
    \A t \in Threads :
        (Returned(t, "read") /\ th[t].prev.op = "write" /\ th[t].prev.ret) =>
            /\ th[t].ret
            /\ th[t].result = th[t].prev.value

\* C10 as amended (SpecSeq): on a buffer that holds no unread sample,
\* write(v) followed immediately by read() returns v.
C10_RoundTripValue ==
    \A t \in Threads :
        (Returned(t, "read") /\ th[t].prev.op = "write" /\ th[t].prev.was_empty) =>
            /\ th[t].prev.ret
            /\ th[t].ret
            /\ th[t].result = th[t].prev.value

\* a round trip on an empty buffer that is not the first one, through a
\* slot that held another value before
C10_Witness ==
    \E t \in Threads :
        /\ Returned(t, "read") /\ th[t].prev.op = "write" /\ th[t].prev.was_empty
        /\ th[t].ret /\ th[t].result = th[t].prev.value
        /\ Len(returned[th[t].rbp]) > rb[th[t].rbp].max_num_values
        /\ returned[th[t].rbp][1] # th[t].result

\* C11 (SpecSeq): an accepted write followed immediately by a successful
\* read leaves count as it was before the write, and head and tail each
\* one position further modulo capacity.
C11_RoundTripCount ==
    \A t \in Threads :
        (Returned(t, "read") /\ th[t].ret /\ th[t].prev.op = "write" /\ th[t].prev.ret) =>
            LET r == rb[th[t].rbp]  o == th[t].prev.old IN
            /\ r.curr_num_values = o.curr_num_values
            /\ r.head = (o.head + 1) % r.max_num_values
            /\ r.tail = (o.tail + 1) % r.max_num_values

\* a round trip on a buffer that held samples, the write into the last slot
\* (the tail wraps to 0)
C11_Witness ==
    \E t \in Threads :
        /\ Returned(t, "read") /\ th[t].ret
        /\ th[t].prev.op = "write" /\ th[t].prev.ret
        /\ th[t].prev.old.curr_num_values > 0
        /\ rb[th[t].rbp].max_num_values > 1
        /\ rb[th[t].rbp].tail = 0

\* C12 (SpecLock): a call of write or read makes at most MaxRetries (in the
\* source 100000) failed try-locks, and it returns whatever the other
\* thread does, also when that thread keeps the lock for ever.
C12_BoundedLockWait ==
    /\ [](\A t \in Threads :
            /\ th[t].retries <= MaxRetries
            /\ (th[t].pc \in {"w_trylock", "r_trylock"}) => th[t].retries < MaxRetries)
    /\ \A t \in {"main"} :
          [](InWrite(th[t]) \/ InRead(th[t]) => <>(th[t].pc = "ret"))

\* a call gave up after MaxRetries failed try-locks, the lock still held by
\* the other thread
C12_Witness ==
    \E t \in Threads :
        /\ th[t].pc = "ret" /\ th[t].diag # "" /\ ~th[t].ret
        /\ th[t].retries = MaxRetries
        /\ rb[th[t].rbp].lock \notin {NoThread, t}

\* C13 (Spec): a call that exhausts its retries returns false, having
\* changed neither head, tail, count nor a sample in any of its steps; on
\* return it does not hold the lock, and the lock is still held by the
\* thread that held it.
C13_TimeoutOutcome ==
    [][\A t \in Threads :
          LET b == th[t].rbp IN
          (th[t].pc \in {"w_trylock", "r_trylock"} /\ th'[t] # th[t]
              /\ th'[t].pc # "w_full" /\ th'[t].pc # "r_empty") =>
              /\ rb' = rb
              /\ rb[b].lock \notin {NoThread, t}
              /\ th'[t].result = th[t].result
              /\ th'[t].pc = "ret" =>
                    /\ th'[t].ret = FALSE
                    /\ th'[t].diag # ""
                    /\ th'[t].retries = MaxRetries]_vars

\* a read gave up on a buffer that held a sample, the writer in its
\* critical section
C13_Witness ==
    \E t \in Threads :
        /\ Returned(t, "read") /\ ~th[t].ret /\ th[t].diag # ""
        /\ rb[th[t].rbp].curr_num_values > 0
        /\ rb[th[t].rbp].lock \notin {NoThread, t}

\* C14 (SpecLife): ring_buffer_init with a capacity > 0 whose allocation
\* succeeds returns true and leaves head, tail and count 0 and the maximum
\* at the requested capacity: the buffer is empty and not full.
C14_SuccessfulInit ==
    \A t \in Threads :
        (th[t].pc = "init_ret" /\ th[t].value > 0 /\ ~heap[th[t].handle].malloc_failed) =>
            LET r == rb[th[t].handle] IN
            /\ th[t].ret = TRUE
            /\ r.head = 0 /\ r.tail = 0 /\ r.curr_num_values = 0
            /\ r.max_num_values = th[t].value
            /\ ring_buffer_empty(r) /\ ~ring_buffer_full(r)

\* ring_buffer_init has returned true for the largest capacity
C14_Witness ==
    \E t \in Threads :
        /\ th[t].pc = "init_ret" /\ th[t].ret
        /\ th[t].value = MaxCap
        /\ heap[th[t].handle].storage = "allocated"

\* C15 (SpecLife): ring_buffer_init returns false exactly when the capacity
\* is <= 0 or the allocation of the storage fails, and true otherwise.
C15_InitFailure ==
    \A t \in Threads :
        th[t].pc = "init_ret" =>
            /\ th[t].ret \in BOOLEAN
            /\ th[t].ret = FALSE <=>
                  (th[t].value <= 0 \/ heap[th[t].handle].malloc_failed)

\* ring_buffer_init has returned false for the capacity 0
C15_Witness ==
    \E t \in Threads :
        th[t].pc = "init_ret" /\ ~th[t].ret /\ th[t].value = 0

\* C16 (SpecLife): when ring_buffer_init has failed no storage is allocated
\* and no lock is initialised.
C16_NothingRetained ==
    \A t \in Threads :
        (th[t].pc = "init_ret" /\ ~th[t].ret) =>
            /\ heap[th[t].handle].storage # "allocated"
            /\ heap[th[t].handle].mutex # "init"

\* C17 (SpecLife): ring_buffer_destroy on a null handle changes nothing, and
\* however many SAFE_DESTROY are made through the same handle the storage is
\* freed once and the lock destroyed once, by the first of them.
C17_DoubleDestroy ==
    [][\A t \in Threads :
          LET b == 0 IN
          /\ (th[t].handle = NULL /\ th'[t].op \in {"destroy", "destroy_null"}
                 /\ th'[t].count # th[t].count) =>
                 /\ heap' = heap
                 /\ rb' = rb
                 /\ th'[t].handle = NULL
          /\ th'[t].pc = "destroyed" =>
                 /\ heap'[b].frees = 1 /\ heap'[b].destroys = 1
                 /\ heap'[b].storage = "freed" /\ heap'[b].mutex = "destroyed"
                 /\ ~heap'[b].fault]_vars

\* a third teardown through the same handle has been made
C17_Witness ==
    \E t \in Threads :
        /\ th[t].pc = "destroyed"
        /\ th[t].op = "destroy" /\ th[t].prev.op = "destroy"
        /\ th[t].handle = NULL
        /\ heap[0].frees = 1

\* C18 (SpecPipe): once every thread of the pipeline has finished, the
\* values read by the final consumer are, one by one, the values accepted
\* from the entry producer.
C18_PipelineIntegrity ==
    (\A t \in Threads : th[t].pc = "done") => Observed = Emitted

\* C19 (SpecPipe): in a run to the end in which no worker has dropped a
\* value it read, the values observed by the final consumer are a
\* subsequence, in order, of the values emitted by the producer.
C19_OrderPreservation ==
    (\A t \in Threads : th[t].pc = "done" /\ ~th[t].dropped) =>
        IsSubsequence(Observed, Emitted)

\* C20 (SpecPipe): rw_count advances in an iteration of the worker only if
\* the read and the write of that iteration both succeeded.
C20_CompletionCount ==
    \A t \in Threads :
        (th[t].role = "worker" /\ th[t].advanced) =>
            th[t].iter_read /\ th[t].iter_write

\* C21 (SpecPipe): a value a worker has read from its upstream buffer is
\* never discarded: it is not overwritten by the next read before it was
\* accepted downstream, and the worker does not finish with it unwritten
\* (the worker keeps no record of a loss).
C21_NoUnacknowledgedLoss ==
    \A t \in Threads :
        th[t].role = "worker" =>
            /\ ~th[t].dropped
            /\ th[t].pc = "done" => ~th[t].unwritten

\* C22 (SpecSeq): however many more writes than reads are attempted, the
\* count never exceeds the capacity; a write attempted on a full buffer is
\* rejected and leaves every unread sample, head, tail and count as they
\* were; and the values read are the accepted values in the order of their
\* writes, those still in the buffer being the accepted values not yet read.
C22_Backpressure ==
    \A b \in Buffers :
        /\ rb[b].curr_num_values <= rb[b].max_num_values
        /\ IsPrefix(returned[b], accepted[b])
        /\ \A t \in Threads :
              /\ (th[t].pc \in {"loop", "ret"}) =>
                    accepted[b] = returned[b] \o Pending(rb[b])
              /\ (Returned(t, "write")
                    /\ th[t].old.curr_num_values = rb[b].max_num_values) =>
                    /\ ~th[t].ret
                    /\ Snapshot(rb[b]) = th[t].old

\* a read that follows a rejected write, on a buffer that has wrapped,
\* with more write calls made than read calls
C22_Witness ==
    \E t \in Threads :
        /\ Returned(t, "read") /\ th[t].ret
        /\ th[t].prev.op = "write" /\ ~th[t].prev.ret
        /\ Len(accepted[th[t].rbp]) > rb[th[t].rbp].max_num_values
        /\ th[t].result = accepted[th[t].rbp][Len(returned[th[t].rbp])]

\* C23 (SpecSeq): through any number of wraps, every read returns the
\* oldest unread value; read from a full buffer of capacity C, that is the
\* value accepted C places before the next value to be accepted; and after
\* each complete fill or complete drain head = tail.
C23_Wraparound ==
    \A t \in Threads :
        LET b == th[t].rbp  r == rb[b]  n == Len(accepted[b]) IN
        /\ (Returned(t, "read") /\ th[t].ret) =>
              /\ th[t].result = th[t].old.buffer[th[t].old.head]
              /\ th[t].result = accepted[b][n - th[t].old.curr_num_values + 1]
              /\ th[t].old.curr_num_values = r.max_num_values =>
                    th[t].result = accepted[b][n + 1 - r.max_num_values]
        /\ (th[t].pc \in {"loop", "ret"}
              /\ r.curr_num_values \in {0, r.max_num_values}) => r.head = r.tail

\* a read from a full buffer whose head is not at 0: the buffer has wrapped
C23_Witness ==
    \E t \in Threads :
        /\ Returned(t, "read") /\ th[t].ret
        /\ rb[th[t].rbp].max_num_values > 1
        /\ th[t].old.curr_num_values = rb[th[t].rbp].max_num_values
        /\ th[t].old.head > 0

\* C24 (SpecSeq): on a buffer of capacity 1 head and tail are 0 in every
\* state; a read that follows an accepted write succeeds, returns the value
\* written and leaves the count 0; a write that follows a successful read
\* is accepted and leaves the count 1.
C24_CapacityOne ==
    \A t \in Threads :
        LET r == rb[th[t].rbp] IN
        r.max_num_values = 1 =>
            /\ r.head = 0 /\ r.tail = 0
            /\ (Returned(t, "read") /\ th[t].prev.op = "write" /\ th[t].prev.ret) =>
                  /\ th[t].ret
                  /\ th[t].result = th[t].prev.value
                  /\ r.curr_num_values = 0
            /\ (Returned(t, "write") /\ th[t].prev.op = "read" /\ th[t].prev.ret) =>
                  /\ th[t].ret
                  /\ r.curr_num_values = 1

\* one write and then three [read, write] iterations, all successful
C24_Witness ==
    \E t \in Threads :
        /\ rb[th[t].rbp].max_num_values = 1
        /\ Returned(t, "write") /\ th[t].ret
        /\ th[t].prev.op = "read" /\ th[t].prev.ret
        /\ th[t].count = 6
        /\ Len(accepted[th[t].rbp]) = 4 /\ Len(returned[th[t].rbp]) = 3

\* C25 (Spec): a thread between its successful try-lock and its unlock
\* holds the lock of its buffer, so at most one thread is there at a time;
\* from the full or empty check to the first update the buffer is as the
\* thread found it when it took the lock; and every step that changes
\* head, tail, count or a sample is a step of the thread holding the lock.
C25_MutualExclusion ==
    /\ [](\A t \in Threads :
            /\ InCritical(th[t]) => rb[th[t].rbp].lock = t
            /\ (th[t].pc \in {"w_full", "w_store", "r_empty", "r_load"}) =>
                  Snapshot(rb[th[t].rbp]) = th[t].old
            /\ \A u \in Threads \ {t} :
                  ~(InCritical(th[t]) /\ InCritical(th[u]) /\ th[t].rbp = th[u].rbp))
    /\ [][\A b \in Buffers :
            Snapshot(rb'[b]) # Snapshot(rb[b]) =>
                \E t \in Threads :
                    /\ rb[b].lock = t /\ rb'[b].lock = t
                    /\ InCritical(th[t]) /\ th[t].rbp = b
                    /\ th'[t] # th[t]]_vars

\* the writer is changing the count while the reader has already failed a
\* try-lock
C25_Witness ==
    \E t \in Threads, u \in Threads :
        /\ th[t].pc = "w_count" /\ th[u].pc = "r_trylock"
        /\ th[u].retries > 0
        /\ th[t].rbp = th[u].rbp

\* C26 (Spec): a thread that is not inside a call of write or read holds no
\* lock, whatever its last call returned, and a buffer on which no call is
\* in progress has its lock free.
C26_LockReleased ==
    \A b \in Buffers :
        /\ \A t \in Threads :
              ~(InWrite(th[t]) \/ InRead(th[t])) => rb[b].lock # t
        /\ (\A t \in Threads : ~(InWrite(th[t]) \/ InRead(th[t]))) =>
              rb[b].lock = NoThread

\* a write has been rejected as full and a read has found the buffer empty,
\* no call in progress
C26_Witness ==
    \E t \in Threads, u \in Threads :
        /\ Returned(t, "write") /\ ~th[t].ret /\ th[t].diag = ""
        /\ Returned(u, "read") /\ ~th[u].ret /\ th[u].diag = ""
        /\ rb[th[t].rbp].lock = NoThread

\* C27 (SpecPipe): a worker calls ring_buffer_write only with a value that
\* the read of the same iteration has returned: the read succeeded, and
\* the value passed is the value read.
C27_ForwardsOnlyWhatItRead ==
    \A t \in Threads :
        (th[t].role = "worker" /\ InWrite(th[t])) =>
            /\ th[t].iter_read
            /\ returned[th[t].handle] # <<>>
            /\ th[t].value = returned[th[t].handle][Len(returned[th[t].handle])]

\* C28 (SpecPipe): every thread of the pipeline can still finish its loop:
\* when the thread that writes a stage has finished, the stage has been
\* given the PipeWrites values its reader waits for, and when the thread
\* that reads a stage has finished, it has taken enough values for the
\* PipeWrites values of its writer to be accepted.
C28_PipelineTermination ==
    \A t \in Threads, u \in Threads :
        LET writes == IF th[t].role = "worker" THEN th[t].out ELSE th[t].handle IN
        (th[t].role \in {"producer", "worker"} /\ th[u].role \in {"worker", "consumer"}
            /\ writes = th[u].handle) =>
            /\ th[t].pc = "done" => Len(accepted[writes]) >= th[u].limit
            /\ th[u].pc = "done" =>
                  Len(returned[writes]) + rb[writes].max_num_values >= th[t].limit

\* C29 (SpecFair): on one buffer of any capacity, the producer having
\* NumWrites values to get accepted and the consumer NumWrites values to
\* read, both threads finish and every accepted value has been read.
C29_SingleBufferProgress ==
    <>(/\ \A t \in Threads : th[t].pc = "done"
       /\ \A b \in Buffers : Len(accepted[b]) = NumWrites /\ returned[b] = accepted[b])

\* both threads have finished on a buffer of capacity 1, after writes
\* rejected as full, reads that found the buffer empty and lock timeouts
C29_Witness ==
    /\ \A t \in Threads : th[t].pc = "done" /\ th[t].retries > 0
    /\ \A b \in Buffers :
          /\ rb[b].max_num_values = 1
          /\ Len(returned[b]) = NumWrites
          /\ returned[b] = accepted[b]

\* C30 (SpecOver): ring_buffer_overwrite returns false only when it gave
\* up on the lock; called on a full buffer whose lock it got, it stores
\* the value and returns true.
C30_OverwriteAlwaysWrites ==
    \A t \in Threads :
        Returned(t, "overwrite") =>
            /\ th[t].ret = (th[t].diag = "")
            /\ th[t].ret =>
                  LET r == rb[th[t].rbp] IN
                  r.buffer[(r.tail + r.max_num_values - 1) % r.max_num_values] = th[t].value

\* C31 (Spec): whenever no call is in progress the count is the number of
\* accepted writes minus the number of successful reads; and no step of a
\* call that returns false (rejected as full, empty, lock timeout) changes
\* the count.
C31_OccupancyAccounting ==
    /\ [](\A b \in Buffers :
            (\A t \in Threads : ~(InWrite(th[t]) \/ InRead(th[t]))) =>
                rb[b].curr_num_values = Len(accepted[b]) - Len(returned[b]))
    /\ [][\A t \in Threads :
            LET b == th[t].rbp IN
            /\ (th'[t].pc = "ret" /\ th[t].pc # "ret" /\ ~th'[t].ret) =>
                  /\ rb'[b].curr_num_values = rb[b].curr_num_values
                  /\ Len(accepted'[b]) = Len(accepted[b])
                  /\ Len(returned'[b]) = Len(returned[b])
            /\ (th[t].pc \in {"w_trylock", "r_trylock", "w_full", "r_empty"}
                  /\ th'[t] # th[t]) =>
                  rb'[b].curr_num_values = rb[b].curr_num_values]_vars

\* no call in progress, the last write rejected as full, the last read
\* given up on the lock, after values were read
C31_Witness ==
    \E t \in Threads, u \in Threads :
        /\ Returned(t, "write") /\ ~th[t].ret /\ th[t].diag = ""
        /\ Returned(u, "read") /\ ~th[u].ret /\ th[u].diag # ""
        /\ Len(returned[th[t].rbp]) > 0
        /\ rb[th[t].rbp].curr_num_values
               = Len(accepted[th[t].rbp]) - Len(returned[th[t].rbp])

\* C32 (Spec): whenever the lock is not held, head = tail exactly when the
\* count is 0 or the capacity; and ring_buffer_empty and ring_buffer_full
\* are never both true.
C32_HeadEqualsTail ==
    \A b \in Buffers :
        /\ rb[b].lock = NoThread =>
              (rb[b].head = rb[b].tail <=>
                  rb[b].curr_num_values \in {0, rb[b].max_num_values})
        /\ ~(ring_buffer_empty(rb[b]) /\ ring_buffer_full(rb[b]))

\* the lock free, a buffer of capacity > 2 neither empty nor full, its
\* samples straddling the end of the array
C32_Witness ==
    \E b \in Buffers :
        /\ rb[b].lock = NoThread
        /\ rb[b].head > rb[b].tail
        /\ rb[b].curr_num_values > 1
        /\ rb[b].curr_num_values < rb[b].max_num_values

\* C33 (SpecSeq): after a write rejected as full the next read succeeds,
\* and the write made right after that read is accepted.
C33_RetryAfterBackpressure ==
    \A t \in Threads :
        /\ (Returned(t, "read") /\ th[t].prev.op = "write" /\ ~th[t].prev.ret) =>
              th[t].ret
        /\ (Returned(t, "write") /\ th[t].prev.op = "read"
              /\ th[t].prev.after_rejected) =>
              /\ th[t].prev.ret
              /\ th[t].ret
              /\ accepted[th[t].rbp][Len(accepted[th[t].rbp])] = th[t].value

\* rejected write, read, accepted write, on a buffer of the largest
\* capacity: the retry goes into the slot the read has freed
C33_Witness ==
    \E t \in Threads :
        /\ Returned(t, "write") /\ th[t].ret
        /\ th[t].prev.op = "read" /\ th[t].prev.after_rejected
        /\ rb[th[t].rbp].max_num_values = MaxCap
        /\ rb[th[t].rbp].curr_num_values = MaxCap
        /\ rb[th[t].rbp].head = 1

\* C37 (Spec): a call that gave up on the lock has printed the "Mutex
\* timeout" line on stderr; a write rejected as full or a read rejected as
\* empty has printed nothing, neither that line nor a "waiting for lock"
\* line (with one producer and one consumer, a call that had to wait finds
\* the buffer neither full nor empty); a successful call has printed no
\* timeout line.
C37_TimeoutDiagnostics ==
    \A t \in Threads :
        /\ TimedOut(th[t]) =>
              /\ th[t].retries = MaxRetries
              /\ th[t].diag = IF th[t].op = "write"
                              THEN "[WRITE] Mutex timeout! Possible deadlock."
                              ELSE "[READ] Mutex timeout! Possible deadlock."
        /\ Rejected(th[t]) => th[t].diag = "" /\ Notices(th[t]) = 0
        /\ (th[t].pc = "ret" /\ th[t].ret) => th[t].diag = ""

\* the producer has given up on the lock, the consumer has found the buffer
\* empty, and both have returned false
C37_Witness ==
    \E t \in Threads, u \in Threads :
        /\ Returned(t, "write") /\ TimedOut(th[t]) /\ th[t].diag # ""
        /\ Returned(u, "read") /\ Rejected(th[u]) /\ th[u].diag = ""

\* C38 (Spec): no step of a ring_buffer_read that returns false changes the
\* caller's result variable: it is written by the load of a read that
\* found a sample, and by nothing else.
C38_FailedReadKeepsResult ==
    [][\A t \in Threads :
          /\ (InRead(th[t]) /\ th'[t].pc = "ret" /\ ~th'[t].ret) =>
                th'[t].result = th[t].result
          /\ (th[t].pc \in {"r_trylock", "r_empty"} /\ th'[t] # th[t]) =>
                th'[t].result = th[t].result
          /\ th'[t].result # th[t].result =>
                /\ th[t].pc = "r_load"
                /\ rb[th[t].rbp].curr_num_values > 0]_vars

\* a read has found the buffer empty, the result still holding the value
\* of an earlier read
C38_Witness ==
    \E t \in Threads :
        /\ Returned(t, "read") /\ Rejected(th[t])
        /\ returned[th[t].rbp] # <<>>
        /\ th[t].result = returned[th[t].rbp][Len(returned[th[t].rbp])]

\* C34 (SpecApp): keep_running, once cleared, stays cleared; after it is
\* cleared at most one ring_buffer_write of the serial reader returns before
\* the reader has left its loops; the step that clears the flag leaves the
\* threads and the buffer alone, and a write under way goes on to its
\* return whatever the flag.
C34_ShutdownFlagPolled ==
    /\ [][keep_running = 0 => keep_running' = 0]_vars
    /\ [](\A t \in Threads : th[t].role = "serial" => th[t].late_writes <= 1)
    /\ [][keep_running' # keep_running => th' = th /\ rb' = rb]_vars
    /\ [][\A t \in Threads :
            (th[t].role = "serial" /\ InWrite(th[t]) /\ th'[t] # th[t]) =>
                (InWrite(th'[t]) \/ th'[t].pc = "ret")]_vars

\* the producer has ended, one write having returned after the flag was
\* cleared and accepted by the buffer
C34_Witness ==
    \E t \in Threads :
        /\ th[t].role = "serial" /\ th[t].pc = "done"
        /\ keep_running = 0
        /\ th[t].late_writes = 1 /\ th[t].ret
        /\ Len(accepted[th[t].rbp]) > 1

\* C35 (SpecApp): once keep_running is cleared, the producer thread ends
\* (read_serial_data has returned), whatever the serial port does.
C35_ShutdownLiveness ==
    (keep_running = 0) ~> (\A t \in Threads : th[t].role = "serial" => th[t].pc = "done")

\* C36 (SpecApp): once SIGINT has been handled, the storage of the buffer
\* that main created has been released.
C36_SigintDestroysBuffer ==
    keep_running = 0 => \A b \in Buffers : heap[b].storage = "freed"

\* C39 (SpecMulti): with two writers and two readers on one buffer the
\* count stays within 0 .. capacity, tail = (head + count) mod capacity
\* whenever the lock is free, and the values returned by the successful
\* reads are, in the order of the reads, the first of the values accepted:
\* each accepted value is returned once at most, and what is in the buffer
\* is what was accepted and not yet returned.
C39_MultiWriterMultiReader ==
    \A b \in Buffers :
        /\ rb[b].curr_num_values >= 0
        /\ rb[b].curr_num_values <= rb[b].max_num_values
        /\ rb[b].lock = NoThread =>
              /\ rb[b].tail = (rb[b].head + rb[b].curr_num_values) % rb[b].max_num_values
              /\ Len(returned[b]) + rb[b].curr_num_values = Len(accepted[b])
        /\ IsPrefix(returned[b], accepted[b])

\* both writers have had a write accepted and both readers a read that
\* succeeded, one reader after a try-lock that failed
C39_Witness ==
    /\ \A t \in Writers \cup Readers : th[t].pc = "done" /\ th[t].count = MultiWrites
    /\ \E t \in Readers : th[t].retries > 0
    /\ \A b \in Buffers : Len(returned[b]) = 2 * MultiWrites

====
